---- MODULE Spec2Model ----
(***************************************************************************)
(* Model of the page classification, cache, OCR and aggregation pipeline   *)
(* of backend/scripts.py (class Helper): process_pdf fans process_page     *)
(* jobs out to a thread pool; each job extracts native text, decides       *)
(* whether the page needs OCR, consults the Redis cache, runs the OCR      *)
(* batch, stores the result and returns its chunks; process_pdf collects   *)
(* the futures in completion order.                                        *)
(*                                                                         *)
(* Numbers: a text is a sequence of one-character strings ("w" a word      *)
(* character, " " white space); areas and coordinates are integers; a      *)
(* confidence c stands for c/100; text_density < 0.3 is compared as        *)
(* 10 * text_area < 3 * page_area.                                         *)
(***************************************************************************)
EXTENDS Integers, Sequences, FiniteSets, TLC

\* ------------------------------------------------------------------ bounds
MaxPages == 2

\* ------------------------------------------------- constants of the program
MIN_WORD_COUNT == 50
CHUNK_SIZE == 5
OCR_DPI == 150
PdfPointsPerInch == 72
DensityNum == 3
DensityDen == 10
MinConfidence == 50
PoolCap == 8
DefaultCpu == 4

\* --------------------------------------------------------------- utilities
Min2(a, b) == IF a < b THEN a ELSE b
Max2(a, b) == IF a > b THEN a ELSE b

RECURSIVE Concat(_)
Concat(ss) == IF ss = <<>> THEN <<>> ELSE Head(ss) \o Concat(Tail(ss))

RECURSIVE SumSeq(_)
SumSeq(s) == IF s = <<>> THEN 0 ELSE Head(s) + SumSeq(Tail(s))

RangeOf(s) == {s[i] : i \in 1..Len(s)}

\* number of occurrences of x in the sequence s
Count(s, x) == Cardinality({i \in 1..Len(s) : s[i] = x})

\* ------------------------------------------------------------ str methods
RECURSIVE LStrip(_)
LStrip(t) == IF t = <<>> THEN t
             ELSE IF Head(t) = " " THEN LStrip(Tail(t)) ELSE t

RECURSIVE RStrip(_)
RStrip(t) == IF t = <<>> THEN t
             ELSE IF t[Len(t)] = " " THEN RStrip(SubSeq(t, 1, Len(t) - 1)) ELSE t

\* str.strip()
Strip(t) == RStrip(LStrip(t))

\* len(str.split()): the number of maximal runs of non-blank characters
SplitLen(t) ==
    Cardinality({i \in 1..Len(t) : t[i] # " " /\ (i = 1 \/ t[i - 1] = " ")})

RECURSIVE Words(_)
\* a text of n words separated by single blanks
Words(n) == IF n = 0 THEN <<>>
            ELSE IF n = 1 THEN <<"w">>
            ELSE <<"w", " ">> \o Words(n - 1)

\* ------------------------------------------------- documents (fitz pages)
\* A span of the text layer: its text and its bbox (x0, y0, x1, y1).
Span(text, bbox) == [text |-> text, bbox |-> bbox]
TextBlock(spans) == [type |-> 0, spans |-> spans]
ImageBlock == [type |-> 1, spans |-> <<>>]

\* A page: its rectangle, the blocks of page.get_text("dict"), the number of
\* page.get_images() and the PNG bytes page.get_pixmap(...).tobytes() gives.
Page(w, h, blocks, images, png) ==
    [width |-> w, height |-> h, blocks |-> blocks, images |-> images, png |-> png]

FiftyWords(x1) ==
    TextBlock(<<Span(Words(25), <<0, 0, x1, 10>>), Span(Words(25), <<0, 20, x1, 30>>)>>)

\* no text, no image
PBlank == Page(72, 144, <<>>, 0, 1)
\* a scanned page: one image, a text layer holding only white space
PScan == Page(72, 144, <<ImageBlock, TextBlock(<<Span(<<" ">>, <<0, 0, 5, 5>>)>>)>>, 1, 2)
\* two native words, padded with blanks
PFew == Page(72, 144, <<TextBlock(<<Span(<<" ", "w", " ", "w", " ">>, <<10, 10, 30, 20>>)>>)>>, 0, 3)
\* 50 words, two images, sparse text, and a span of white space
PNative ==
    Page(72, 144,
         <<FiftyWords(10), ImageBlock, TextBlock(<<Span(<<" ", " ">>, <<0, 40, 10, 50>>)>>)>>,
         2, 4)
\* 49 words, no image
P49 == Page(72, 144, <<TextBlock(<<Span(Words(49), <<0, 0, 10, 10>>)>>)>>, 0, 5)
\* 50 words, three images, text area 20 * 155 = 3100 < 0.3 * 10368
PSparse3 == Page(72, 144, <<FiftyWords(155)>>, 3, 6)
\* 50 words, three images, text area 20 * 54 = 1080 = 0.3 * 3600
PDense3 == Page(60, 60, <<FiftyWords(54)>>, 3, 7)
\* 50 words, three images, an empty page rectangle
PZero == Page(0, 144, <<FiftyWords(10)>>, 3, 0)

Masters ==
    { <<PFew, PScan, PNative, PBlank>>,
      <<PScan, PScan, P49, PFew>>,
      <<PSparse3, PDense3, PScan, PZero>>,
      <<PNative, PBlank, P49, PDense3>>,
      <<PZero, P49, PFew, PScan>> }

\* the documents of MaxPages pages, and a one-page document
Docs == { SubSeq(m, 1, MaxPages) : m \in Masters } \cup { <<PScan>> }

\* ------------------------------------------------------------- OCR engine
\* One line of reader.ocr(...)[0]: (bbox, (text, confidence)), bbox four
\* points in image pixels; <<>> stands for a None line.
Line(x0, y0, x1, y1, text, conf) ==
    << <<<<x0, y0>>, <<x1, y0>>, <<x1, y1>>, <<x0, y1>>>>, <<text, conf>> >>

\* What the engine reads on each PNG (ocr_result[0]).
EngineLines(png) ==
    CASE png = 2 -> << Line(25, 25, 100, 50, <<" ", "w", " ", "w", " ">>, 92),
                       Line(25, 75, 100, 100, <<"w">>, 50),
                       Line(25, 125, 100, 150, <<" ">>, 90),
                       <<>> >>
      [] png = 3 -> << Line(-25, 25, 50, 50, <<"w">>, 80) >>
      [] png = 5 -> << Line(0, 0, 50, 25, <<"w", " ", "w">>, 51) >>
      [] png = 6 -> << Line(25, 25, 50, 50, <<"w">>, 99),
                       Line(25, 25, 50, 50, <<"w">>, 99) >>
      [] OTHER -> <<>>

\* pixmap size at zoom OCR_DPI / 72
ImgDim(pdfDim) == (pdfDim * OCR_DPI) \div PdfPointsPerInch

\* coordinate * (pdf_dim / img_dim); the data keep the quotient integral
Scale(v, pdfDim, imgDim) == (v * pdfDim) \div imgDim

MinOf(S) == CHOOSE x \in S : \A y \in S : x <= y
MaxOf(S) == CHOOSE x \in S : \A y \in S : x >= y

OcrChunk(text, bbox, page_num, confidence) ==
    [text |-> text, bbox |-> bbox, page |-> page_num, confidence |-> confidence]

\* lines 70-84: the chunk one engine line yields, <<>> when it is skipped
LineChunks(line, page_num, pdf_width, pdf_height, img_width, img_height) ==
    IF line # <<>> /\ Len(line) = 2
    THEN LET bbox == line[1]
             text == line[2][1]
             confidence == line[2][2]
         IN IF bbox # <<>> /\ Len(bbox) = 4
            THEN LET x0 == Scale(MinOf({bbox[i][1] : i \in 1..4}), pdf_width, img_width)
                     y0 == Scale(MinOf({bbox[i][2] : i \in 1..4}), pdf_height, img_height)
                     x1 == Scale(MaxOf({bbox[i][1] : i \in 1..4}), pdf_width, img_width)
                     y1 == Scale(MaxOf({bbox[i][2] : i \in 1..4}), pdf_height, img_height)
                 IN IF Strip(text) # <<>> /\ confidence > MinConfidence
                    THEN <<OcrChunk(Strip(text), <<x0, y0, x1, y1>>, page_num, confidence)>>
                    ELSE <<>>
            ELSE <<>>
    ELSE <<>>

\* _process_ocr_batch on the one-image batch process_page passes. raises is
\* the engine (or Image.open) raising on this image; a pixmap without width
\* or height makes the scale factors raise ZeroDivisionError. Either way the
\* except clause logs and the batch yields no chunk.
_process_ocr_batch(png, page_num, pdf_width, pdf_height, raises) ==
    LET img_width == ImgDim(pdf_width)
        img_height == ImgDim(pdf_height)
        lines == EngineLines(png)
    IN IF raises \/ img_width = 0 \/ img_height = 0 THEN <<>>
       ELSE Concat([i \in 1..Len(lines) |->
                LineChunks(lines[i], page_num, pdf_width, pdf_height,
                           img_width, img_height)])

\* ------------------------------------------------------------ Redis cache
\* hashlib.md5(image_bytes.hex().encode()).hexdigest(), one digest per image
Md5Hex(png) == 1000 + 37 * png

\* (variant: the page number left out of the key)
_get_cache_key_wrong(png, page_num) == <<"ocr", Md5Hex(png), 0>>
\* "ocr:<digest>:<page_num>"
_get_cache_key(png, page_num) == <<"ocr", Md5Hex(png), page_num>>

\* str(ocr_chunks): the text of a list of dict literals, one item per chunk
Str(chunks) ==
    [kind |-> "repr",
     items |-> [i \in 1..Len(chunks) |->
                  <<chunks[i].text, chunks[i].bbox[1], chunks[i].bbox[2],
                    chunks[i].bbox[3], chunks[i].bbox[4], chunks[i].page,
                    chunks[i].confidence>>]]

\* a value that is no Python expression, and the empty string
Garbage == [kind |-> "garbage", items |-> <<>>]
EmptyStr == [kind |-> "empty", items |-> <<>>]

\* truth value of the string redis returns
\* (variant: the test of line 135 never passes)
Truthy_wrong(v) == FALSE
Truthy(v) == v.kind # "empty"
\* eval(v) raises
EvalRaises(v) == v.kind = "garbage"
\* eval(v) for the text of a list of dict literals
Eval(v) ==
    [i \in 1..Len(v.items) |->
        OcrChunk(v.items[i][1],
                 <<v.items[i][2], v.items[i][3], v.items[i][4], v.items[i][5]>>,
                 v.items[i][6], v.items[i][7])]

\* ----------------------------------------------- process_page, local part
\* the spans of the text blocks (type 0), in source order
SpansOf(page) ==
    Concat([i \in 1..Len(page.blocks) |->
              IF page.blocks[i].type = 0 THEN page.blocks[i].spans ELSE <<>>])

\* the spans whose text is not empty once stripped
TextSpans(page) == SelectSeq(SpansOf(page), LAMBDA sp : Strip(sp.text) # <<>>)

\* page_chunks after the loop of lines 108-121 (number is page.number)
\* (variant: the test of line 113 left out)
page_chunks_wrong(page, number) ==
    LET spans == SpansOf(page)
    IN [i \in 1..Len(spans) |->
          [text |-> Strip(spans[i].text), bbox |-> spans[i].bbox, page |-> number + 1]]
page_chunks(page, number) ==
    LET spans == TextSpans(page)
    IN [i \in 1..Len(spans) |->
          [text |-> Strip(spans[i].text), bbox |-> spans[i].bbox, page |-> number + 1]]

text_area(page) ==
    LET spans == TextSpans(page)
    IN SumSeq([i \in 1..Len(spans) |->
                 (spans[i].bbox[3] - spans[i].bbox[1]) * (spans[i].bbox[4] - spans[i].bbox[2])])

word_count(page) ==
    LET spans == TextSpans(page)
    IN SumSeq([i \in 1..Len(spans) |-> SplitLen(Strip(spans[i].text))])

page_area(page) == page.width * page.height

\* text_density < TEXT_DENSITY_THRESHOLD, text_density being 0 when the page
\* has no area
DensityBelow(ta, pa) == IF pa > 0 THEN DensityDen * ta < DensityNum * pa ELSE TRUE

\* the condition of line 126
\* (variant: the other reading of the precedence, and before or)
NeedsOcr_wrong(image_count, ta, pa, wc) ==
    image_count > 2 /\ (DensityBelow(ta, pa) \/ wc < MIN_WORD_COUNT)
NeedsOcr(image_count, ta, pa, wc) ==
    (image_count > 2 /\ DensityBelow(ta, pa)) \/ wc < MIN_WORD_COUNT

PageNeedsOcr(page) ==
    NeedsOcr(page.images, text_area(page), page_area(page), word_count(page))

\* Every page of the documents with what process_page computes from the
\* page alone, each computed once: the side it is on, its native chunks,
\* and the chunks of the OCR batch on its pixmap.
AllPages == UNION {RangeOf(m) : m \in Masters}
OcrSide == [page \in AllPages |-> PageNeedsOcr(page)]
NativeOf ==
    [page \in AllPages |-> [number \in 0..(MaxPages - 1) |-> page_chunks(page, number)]]
BatchOf ==
    [page \in AllPages |-> [page_num \in 1..MaxPages |-> [raises \in BOOLEAN |->
        _process_ocr_batch(page.png, page_num, page.width, page.height, raises)]]]

NewJob ==
    [st |-> "queued", strategy |-> "", raster |-> "none", read |-> "none",
     ocr |-> "none", write |-> "none", result |-> <<>>, collected |-> FALSE]

Returned(j, result) == [j EXCEPT !.st = "returned", !.result = result]

\* redis_client.get(key): the stored string, EmptyStr standing for None too
RedisGet(c, key) == IF key \in DOMAIN c THEN c[key] ELSE EmptyStr

\* redis_client.setex(key, CACHE_EXPIRY, str(chunks))
RedisSetex(c, key, value) ==
    [k \in DOMAIN c \cup {key} |-> IF k = key THEN value ELSE c[k]]

\* process_page, lines 99-136, for the page of index p on the store c:
\* extract the text layer, decide, and on the OCR side rasterize the page and
\* read the cache. rasterRaises and getRaises tell whether get_pixmap and
\* redis_client.get raise; every exception ends in the except clause of line
\* 146, which returns []. The job is left waiting for the OCR ("ocr") or
\* returned.
ProcessPageBegin(j, page, p, c, rasterRaises, getRaises) ==
    LET cached_result == RedisGet(c, _get_cache_key(page.png, p))
        j0 == [j EXCEPT !.strategy = "OCR"]
        j1 == [j0 EXCEPT !.raster = "ok"]
    IN IF ~OcrSide[page]
       THEN Returned([j EXCEPT !.strategy = "NATIVE"], NativeOf[page][p])
       ELSE IF rasterRaises THEN Returned([j0 EXCEPT !.raster = "raised"], <<>>)
       ELSE IF getRaises THEN Returned([j1 EXCEPT !.read = "fault"], <<>>)
       ELSE IF Truthy(cached_result)
            THEN IF EvalRaises(cached_result)
                 THEN Returned([j1 EXCEPT !.read = "bad"], <<>>)
                 ELSE Returned([j1 EXCEPT !.read = "hit"], Eval(cached_result))
            ELSE [j1 EXCEPT !.read = "miss", !.st = "ocr"]

\* the test of line 139, `if ocr_chunks:`
\* (variant: the test always passes)
ShouldStore_wrong(ocr_chunks) == TRUE
ShouldStore(ocr_chunks) == ocr_chunks # <<>>

\* lines 139-150: what process_page returns once the batch is back
\* (variant: the OCR result returned even when it is empty)
RecognizeResult_wrong(ocr_chunks, native, setRaises) ==
    IF setRaises THEN <<>> ELSE ocr_chunks
RecognizeResult(ocr_chunks, native, setRaises) ==
    IF ShouldStore(ocr_chunks)
    THEN (IF setRaises THEN <<>> ELSE ocr_chunks)
    ELSE native

\* process_page, lines 138-150, after a miss: run the OCR batch; store and
\* return its chunks when there are any, else return the native chunks.
\* ocrRaises and setRaises tell whether the engine and redis_client.setex
\* raise. Gives the job and the store afterwards.
ProcessPageRecognize(j, page, p, c, ocrRaises, setRaises) ==
    LET ocr_chunks == BatchOf[page][p + 1][ocrRaises]
        stores == ShouldStore(ocr_chunks) /\ ~setRaises
        j1 == [j EXCEPT !.ocr = IF ocrRaises THEN "raised" ELSE "ok",
                        !.write = IF ~ShouldStore(ocr_chunks) THEN "none"
                                  ELSE IF setRaises THEN "fault" ELSE "ok"]
    IN [job |-> Returned(j1, RecognizeResult(ocr_chunks, NativeOf[page][p], setRaises)),
        cache |-> IF stores
                  THEN RedisSetex(c, _get_cache_key(page.png, p), Str(ocr_chunks))
                  ELSE c,
        put |-> IF stores THEN ocr_chunks ELSE <<>>]

\* ------------------------------------------------ process_pdf, local part
NoneArg == [isNone |-> TRUE, val |-> 0]
IntArg(n) == [isNone |-> FALSE, val |-> n]

\* max(1, min(start_page, total_pages))
ClampStart(s, total) == Max2(1, Min2(s, total))
\* min(end_page or total_pages, total_pages): None and 0 are falsy
ClampEnd(e, total) == Min2(IF e.isNone \/ e.val = 0 THEN total ELSE e.val, total)

\* the test of line 163
\* (variant: the test left out)
RangeInvalid_never(sp, ep) == FALSE
RangeInvalid(sp, ep) == sp > ep

\* range(start_page - 1, end_page) as a sequence of page indexes
page_ranges(sp, ep) == [i \in 1..Max2(0, ep - sp + 1) |-> sp - 2 + i]

\* the slices page_ranges[i:i + CHUNK_SIZE]
chunk_ranges(pr) ==
    [k \in 1..((Len(pr) + CHUNK_SIZE - 1) \div CHUNK_SIZE) |->
        SubSeq(pr, (k - 1) * CHUNK_SIZE + 1, Min2(k * CHUNK_SIZE, Len(pr)))]

\* the page indexes in the order the futures are submitted
SubmitOrder(sp, ep) == Concat(chunk_ranges(page_ranges(sp, ep)))

\* min(os.cpu_count() or 4, 8); cpu 0 stands for None
max_workers(cpu) == Min2(IF cpu = 0 THEN DefaultCpu ELSE cpu, PoolCap)

HTTPException(status, detail) == [status |-> status, detail |-> detail]
NoError == [status |-> 0, detail |-> ""]

\* what fitz.open raises on bytes that are no PDF (not an HTTPException)
FileDataError == [status |-> 0, detail |-> "Failed to open stream"]

\* lines 182-184: whatever was raised inside the try leaves as a 500 whose
\* detail is str(e)
ExceptHandler(e) ==
    HTTPException(500, IF e.status = 400 THEN "400: Invalid page range" ELSE e.detail)

\* chunks.extend(result)
\* (variants: assignment instead of extend; the result taken back to front)
Extend_wrong(cs, result) == result
Extend_reversed(cs, result) ==
    cs \o [i \in 1..Len(result) |-> result[Len(result) + 1 - i]]
Extend(cs, result) == cs \o result

\* ------------------------------------------- tasks.py: the Celery task
MaxRetries == 3

\* The bytes handed to perform_ocr: a PNG of the given pixel size showing
\* what EngineLines reads on png; b"" ; bytes PIL cannot open.
Image(png, w, h) == [png |-> png, width |-> w, height |-> h]
EmptyBytes == Image(-1, 0, 0)
JunkBytes == Image(-2, 0, 0)

\* lines 42-64: the chunk one engine line yields, <<>> when it is skipped
TaskLineChunks(line, page_num, pdf_width, pdf_height, img_width, img_height) ==
    IF line = <<>> THEN <<>>
    ELSE LET bbox == line[1]
             text == line[2][1]
             confidence == line[2][2]
         IN IF bbox = <<>> \/ Len(bbox) # 4 THEN <<>>
            ELSE LET x0 == Scale(MinOf({bbox[i][1] : i \in 1..4}), pdf_width, img_width)
                     y0 == Scale(MinOf({bbox[i][2] : i \in 1..4}), pdf_height, img_height)
                     x1 == Scale(MaxOf({bbox[i][1] : i \in 1..4}), pdf_width, img_width)
                     y1 == Scale(MaxOf({bbox[i][2] : i \in 1..4}), pdf_height, img_height)
                 IN IF Strip(text) # <<>> /\ \A c \in {x0, y0, x1, y1} : c >= 0
                    THEN <<OcrChunk(Strip(text), <<x0, y0, x1, y1>>, page_num, confidence)>>
                    ELSE <<>>

\* what leaves a piece of code: a value, or an exception
Value(v) == [raised |-> FALSE, value |-> v]
Raised == [raised |-> TRUE, value |-> <<>>]

\* lines 20-67, the try block of perform_ocr: it raises on empty bytes
\* (line 24), on bytes PIL cannot open (line 26), on an image without pixels
\* (line 31) and when the engine raises (line 38); else it returns the chunks
TaskTry(page_image, page_num, pdf_width, pdf_height, engineRaises) ==
    IF page_image = EmptyBytes \/ page_image = JunkBytes
       \/ page_image.width * page_image.height = 0 \/ engineRaises
    THEN Raised
    ELSE LET lines == EngineLines(page_image.png)
         IN Value(Concat([i \in 1..Len(lines) |->
                TaskLineChunks(lines[i], page_num, pdf_width, pdf_height,
                               page_image.width, page_image.height)]))

\* lines 69-71: except Exception: print, return []
\* (variant: the exception is left to Celery)
TaskExcept_wrong(out) == out
TaskExcept(out) == IF out.raised THEN Value(<<>>) ELSE out

\* perform_ocr(self, page_image, page_num, pdf_width, pdf_height)
perform_ocr(page_image, page_num, pdf_width, pdf_height, engineRaises) ==
    TaskExcept(TaskTry(page_image, page_num, pdf_width, pdf_height, engineRaises))

NoTask ==
    [state |-> "NONE", page_image |-> EmptyBytes, page_num |-> 0, pdf_width |-> 0,
     pdf_height |-> 0, retries |-> 0, failed |-> FALSE, result |-> <<>>]

\* ------------------------------------------------------------------ state
VARIABLES
    task,         \* the perform_ocr task on the ocr_processing queue
    doc,          \* the opened document: a sequence of pages
    cpu_count,    \* os.cpu_count() of the host (0: None)
    cache,        \* the Redis store: key -> stored string
    stored,       \* history: (digest, page.number) -> the chunks setex stored there
    pc,           \* process_pdf: "idle", "collect", "done", "failed"
    args,         \* the arguments (start_page, end_page, pdf_bytes) of the call
    total_pages,
    start_page,   \* after line 160
    end_page,     \* after line 161
    futures,      \* the submitted page indexes, in submission order
    job,          \* page index -> the state of its process_page call
    chunks,       \* the list process_pdf builds
    error,        \* the exception that leaves process_pdf
    cache0        \* history: the cache when the call began

vars == <<task, doc, cpu_count, cache, stored, pc, args, total_pages, start_page,
          end_page, futures, job, chunks, error, cache0>>

CpuCounts == {1, 16}
PdfBytes == {"pdf", "junk"}
StartArgs == {0, 1, 2, MaxPages + 1}
EndArgs == {NoneArg} \cup {IntArg(n) : n \in {-1, 0, 1, MaxPages + 1}}

\* The store at the start: empty, or holding under the key of the first page
\* what an earlier run stored there (when its OCR read anything), or what a
\* foreign writer left there.
EarlierRun(d) == _process_ocr_batch(d[1].png, 1, d[1].width, d[1].height, FALSE)
InitValues(d) ==
    {Garbage, EmptyStr} \cup (IF EarlierRun(d) # <<>> THEN {Str(EarlierRun(d))} ELSE {})
InitCaches(d) ==
    { <<>> } \cup { (_get_cache_key(d[1].png, 0) :> v) : v \in InitValues(d) }
InitStored(d, c) ==
    IF c # <<>> /\ c[_get_cache_key(d[1].png, 0)].kind = "repr"
    THEN (<<Md5Hex(d[1].png), 0>> :> EarlierRun(d))
    ELSE <<>>

Init ==
    /\ task = NoTask
    /\ doc \in Docs
    /\ cpu_count \in CpuCounts
    /\ cache \in InitCaches(doc)
    /\ stored = InitStored(doc, cache)
    /\ pc = "idle"
    /\ args = <<1, NoneArg, "pdf">>
    /\ total_pages = 0
    /\ start_page = 1
    /\ end_page = 1
    /\ futures = <<>>
    /\ job = <<>>
    /\ chunks = <<>>
    /\ error = NoError
    /\ cache0 = cache

\* process_pdf(pdf_bytes, s, e), lines 154-176: open, clamp, validate, submit
\* one process_page future per page of the range.
\* pdf_bytes is the document ("pdf") or bytes fitz.open cannot open ("junk"):
\* then line 158 raises inside the try and nothing after it runs.
process_pdf_call(pdf_bytes, s, e) ==
    /\ pc = "idle"
    /\ args' = <<s, e, pdf_bytes>>
    /\ chunks' = <<>>
    /\ cache0' = cache
    /\ IF pdf_bytes = "junk"
       THEN /\ error' = ExceptHandler(FileDataError)
            /\ pc' = "failed"
            /\ futures' = <<>>
            /\ job' = <<>>
            /\ UNCHANGED <<total_pages, start_page, end_page>>
       ELSE /\ total_pages' = Len(doc)
            /\ start_page' = ClampStart(s, Len(doc))
            /\ end_page' = ClampEnd(e, Len(doc))
            /\ IF RangeInvalid(start_page', end_page')
               THEN /\ error' = ExceptHandler(HTTPException(400, "Invalid page range"))
                    /\ pc' = "failed"
                    /\ futures' = <<>>
                    /\ job' = <<>>
               ELSE /\ error' = NoError
                    /\ pc' = "collect"
                    /\ futures' = SubmitOrder(start_page', end_page')
                    /\ job' = [p \in RangeOf(futures') |-> NewJob]
    /\ UNCHANGED <<task, doc, cpu_count, cache, stored>>

Running == {p \in DOMAIN job : job[p].st = "ocr"}
Queued == {i \in 1..Len(futures) : job[futures[i]].st = "queued"}

\* A free worker takes the oldest queued future and runs process_page up to
\* its cache read.
process_page_begin(p) ==
    /\ pc = "collect"
    /\ Queued # {}
    /\ p = futures[MinOf(Queued)]
    /\ Cardinality(Running) < max_workers(cpu_count)
    /\ \E rasterRaises \in (IF page_area(doc[p + 1]) > 0 THEN {FALSE} ELSE BOOLEAN),
          getRaises \in BOOLEAN :
         job' = [job EXCEPT ![p] =
                   ProcessPageBegin(@, doc[p + 1], p, cache, rasterRaises, getRaises)]
    /\ UNCHANGED <<task, doc, cpu_count, cache, stored, pc, args, total_pages,
                   start_page, end_page, futures, chunks, error, cache0>>

\* The worker of page p runs the rest of process_page.
process_page_recognize(p) ==
    /\ pc = "collect"
    /\ p \in DOMAIN job
    /\ job[p].st = "ocr"
    /\ \E ocrRaises \in BOOLEAN, setRaises \in BOOLEAN :
         \E out \in {ProcessPageRecognize(job[p], doc[p + 1], p, cache, ocrRaises, setRaises)} :
         LET k == <<Md5Hex(doc[p + 1].png), p>>
         IN /\ (setRaises => out.job.write = "fault")
            /\ job' = [job EXCEPT ![p] = out.job]
            /\ cache' = out.cache
            /\ stored' = IF out.put # <<>>
                         THEN [x \in DOMAIN stored \cup {k} |->
                                 IF x = k THEN out.put ELSE stored[x]]
                         ELSE stored
    /\ UNCHANGED <<task, doc, cpu_count, pc, args, total_pages, start_page,
                   end_page, futures, chunks, error, cache0>>

\* one turn of the as_completed loop, lines 178-180
collect(p) ==
    /\ pc = "collect"
    /\ p \in DOMAIN job
    /\ job[p].st = "returned"
    /\ ~job[p].collected
    /\ chunks' = IF job[p].result # <<>> THEN Extend(chunks, job[p].result) ELSE chunks
    /\ job' = [job EXCEPT ![p].collected = TRUE]
    /\ UNCHANGED <<task, doc, cpu_count, cache, stored, pc, args, total_pages,
                   start_page, end_page, futures, error, cache0>>

\* the loop of line 178 ends: as_completed has yielded every future
\* (variant: the loop does not wait for the futures)
Exhausted_wrong == TRUE
Exhausted == \A p \in DOMAIN job : job[p].collected

\* line 188: every future has been taken from as_completed
process_pdf_return ==
    /\ pc = "collect"
    /\ Exhausted
    /\ pc' = "done"
    /\ UNCHANGED <<task, doc, cpu_count, cache, stored, args, total_pages,
                   start_page, end_page, futures, job, chunks, error, cache0>>

\* the caller has its answer, (chunks, total_pages) or the exception, and
\* is ready for its next call
caller_continues ==
    /\ pc \in {"done", "failed"}
    /\ pc' = "idle"
    /\ args' = <<1, NoneArg, "pdf">>
    /\ total_pages' = 0
    /\ start_page' = 1
    /\ end_page' = 1
    /\ futures' = <<>>
    /\ job' = <<>>
    /\ chunks' = <<>>
    /\ error' = NoError
    /\ cache0' = cache
    /\ UNCHANGED <<task, doc, cpu_count, cache, stored>>

\* Redis drops a key whose CACHE_EXPIRY has run out. Within one call a key is
\* read and written by the job of its own page only, so an expiry during the
\* call acts on that job like one just before or just after the call: the
\* model lets keys expire between calls.
expire(k) ==
    /\ pc = "idle"
    /\ k \in DOMAIN cache
    /\ cache' = [x \in DOMAIN cache \ {k} |-> cache[x]]
    /\ cache0' = cache'
    /\ stored' = [x \in DOMAIN stored \ {<<k[2], k[3]>>} |-> stored[x]]
    /\ UNCHANGED <<task, doc, cpu_count, pc, args, total_pages, start_page,
                   end_page, futures, job, chunks, error>>

Next ==
    \/ \E b \in PdfBytes, s \in StartArgs, e \in EndArgs : process_pdf_call(b, s, e)
    \/ \E p \in DOMAIN job : process_page_begin(p)
    \/ \E p \in DOMAIN job : process_page_recognize(p)
    \/ \E p \in DOMAIN job : collect(p)
    \/ process_pdf_return
    \/ caller_continues
    \/ \E k \in DOMAIN cache : expire(k)

Spec == Init /\ [][Next]_vars

\* The same program under fair scheduling: as long as a pool thread can
\* take or continue a page job, or the thread of process_pdf can take a
\* result from as_completed or return, one of them does.
Progress ==
    \/ \E p \in DOMAIN job : process_page_begin(p)
    \/ \E p \in DOMAIN job : process_page_recognize(p)
    \/ \E p \in DOMAIN job : collect(p)
    \/ process_pdf_return

Fairness == WF_vars(Progress)

\* the fair runs start from the documents of two of the masters
LiveDocs ==
    { SubSeq(m, 1, MaxPages) :
        m \in { <<PFew, PScan, PNative, PBlank>>, <<PSparse3, PDense3, PScan, PZero>> } }
LiveInit == Init /\ doc \in LiveDocs

FairSpec == LiveInit /\ [][Next]_vars /\ Fairness

\* ------------------------------------------------ the task on its queue
pipeline == <<doc, cpu_count, cache, stored, pc, args, total_pages, start_page,
              end_page, futures, job, chunks, error, cache0>>

TaskImages ==
    {Image(png, 150, 300) : png \in {1, 2, 3, 5, 6}} \cup
    {EmptyBytes, JunkBytes, Image(2, 0, 300)}

\* perform_ocr.delay(page_image, page_num, pdf_width, pdf_height)
task_send(page_image, page_num, pdf_width, pdf_height) ==
    /\ task.state = "NONE"
    /\ task' = [NoTask EXCEPT !.state = "PENDING", !.page_image = page_image,
                              !.page_num = page_num, !.pdf_width = pdf_width,
                              !.pdf_height = pdf_height]
    /\ UNCHANGED pipeline

\* A worker runs the task once. autoretry_for=(Exception,) with
\* max_retries=3 (lines 10-15): an exception leaving perform_ocr sends the
\* task back to the queue until its retries are used up.
task_run ==
    /\ task.state \in {"PENDING", "RETRY"}
    /\ \E engineRaises \in BOOLEAN :
         LET inside == TaskTry(task.page_image, task.page_num, task.pdf_width,
                               task.pdf_height, engineRaises)
             out == perform_ocr(task.page_image, task.page_num, task.pdf_width,
                                task.pdf_height, engineRaises)
         IN task' = IF out.raised
                    THEN IF task.retries < MaxRetries
                         THEN [task EXCEPT !.state = "RETRY", !.retries = @ + 1,
                                           !.failed = TRUE]
                         ELSE [task EXCEPT !.state = "FAILURE", !.failed = TRUE]
                    ELSE [task EXCEPT !.state = "SUCCESS", !.failed = inside.raised,
                                      !.result = out.value]
    /\ UNCHANGED pipeline

\* the result has been fetched
task_forget ==
    /\ task.state \in {"SUCCESS", "FAILURE"}
    /\ task' = NoTask
    /\ UNCHANGED pipeline

TaskInit ==
    /\ task = NoTask
    /\ doc = <<PScan>>
    /\ cpu_count = 1
    /\ cache = <<>>
    /\ stored = <<>>
    /\ pc = "idle"
    /\ args = <<1, NoneArg, "pdf">>
    /\ total_pages = 0
    /\ start_page = 1
    /\ end_page = 1
    /\ futures = <<>>
    /\ job = <<>>
    /\ chunks = <<>>
    /\ error = NoError
    /\ cache0 = cache

TaskNext ==
    \/ \E im \in TaskImages, n \in 1..MaxPages, w \in {60, 72, 144} :
          task_send(im, n, w, 2 * w)
    \/ task_run
    \/ task_forget

TaskSpec == TaskInit /\ [][TaskNext]_vars

\* ------------------------------------------------------------- properties
Pages == DOMAIN job
PageOf(p) == doc[p + 1]
Started(p) == job[p].strategy # ""

\* C1: every page a job has looked at is on the OCR side exactly when
\* (imageCount > 2 and textDensity < 0.3) or wordCount < 50, whatever the
\* cache holds and whatever the other pages are; a page without spans and
\* images is on the OCR side; the OCR side is the one that rasterizes.
C1_Routing ==
    \A p \in Pages : Started(p) =>
        LET page == PageOf(p)
            sparse == IF page_area(page) > 0
                      THEN 10 * text_area(page) < 3 * page_area(page)
                      ELSE TRUE
            rule == (page.images > 2 /\ sparse) \/ word_count(page) < 50
        IN /\ (job[p].strategy = "OCR") <=> rule
           /\ (job[p].strategy = "NATIVE") <=> ~rule
           /\ (job[p].raster # "none") <=> rule
           /\ (TextSpans(page) = <<>> /\ page.images = 0 => job[p].strategy = "OCR")

\* C1 witness: a blank page went to OCR next to a page that stayed native
C1_Witness ==
    \E p, q \in Pages :
        /\ TextSpans(PageOf(p)) = <<>> /\ PageOf(p).images = 0
        /\ job[p].strategy = "OCR"
        /\ job[q].strategy = "NATIVE"

\* the clamp the specification describes: into [1, total]
ClampInto(x, total) == Max2(1, Min2(x, total))

\* C2 (as claimed): both bounds are clamped into [1, totalPages] and the
\* pages dispatched are exactly the clamped inclusive range.
C2_ClampsBothBounds ==
    (pc # "idle" /\ args[3] = "pdf") =>
        LET s == ClampInto(args[1], Len(doc))
            e == IF args[2].isNone THEN Len(doc) ELSE ClampInto(args[2].val, Len(doc))
        IN s <= e => /\ pc # "failed"
                     /\ Pages = {n - 1 : n \in s..e}

\* C3 (as claimed): a request whose clamped range is empty fails with the
\* status of an invalid range (400), not the one of a processing error (500).
C3_InvalidRangeKind ==
    LET s == ClampInto(args[1], Len(doc))
        e == IF args[2].isNone THEN Len(doc) ELSE ClampInto(args[2].val, Len(doc))
    IN (pc # "idle" /\ args[3] = "pdf" /\ s > e /\ start_page > end_page) =>
           (pc = "failed" /\ error.status = 400 /\ error.status # 500)

\* C4: a request whose clamped range is empty fails before any page work:
\* it is failed as soon as it is validated, no future was submitted, no
\* page job exists (so nothing was classified, read, written or recognized)
\* and no chunk was collected.
C4_NoPageWorkOnInvalidRange ==
    (pc # "idle" /\ args[3] = "pdf" /\ start_page > end_page) =>
        /\ pc = "failed"
        /\ futures = <<>>
        /\ Pages = {}
        /\ chunks = <<>>

\* C4 witness: start beyond the last page, end before it
C4_Witness ==
    /\ pc = "failed"
    /\ args[1] = MaxPages + 1
    /\ args[2] = IntArg(1)
    /\ start_page > end_page
    /\ Len(doc) = MaxPages

\* the history key of the page of index p
StoredKey(p) == <<Md5Hex(PageOf(p).png), p>>

\* C5: a job that found its page in the cache returns
\* exactly the chunk sequence that was stored for the same image bytes and
\* the same page number; an entry stored for the same bytes under another
\* page number never serves it. Every stored string evaluates back to the
\* chunk sequence it was made from.
C5_CacheRoundTrip ==
    /\ \A p \in Pages : job[p].read = "hit" =>
          /\ StoredKey(p) \in DOMAIN stored
          /\ job[p].result = stored[StoredKey(p)]
    /\ \A k \in DOMAIN cache : cache[k].kind = "repr" =>
          /\ <<k[2], k[3]>> \in DOMAIN stored
          /\ Eval(cache[k]) = stored[<<k[2], k[3]>>]

\* C5 witness: two pages with the same image bytes; one is served the stored
\* chunks, the other misses
C5_Witness ==
    /\ pc = "collect"
    /\ \E p, q \in Pages :
          /\ p # q
          /\ PageOf(p).png = PageOf(q).png
          /\ job[p].read = "hit" /\ job[p].result # <<>>
          /\ job[q].read = "miss"

\* what the page of index p yields with an empty, working cache
WithEmptyCache(p) ==
    LET j == ProcessPageBegin(NewJob, PageOf(p), p, <<>>, FALSE, FALSE)
    IN IF j.st = "ocr"
       THEN ProcessPageRecognize(j, PageOf(p), p, <<>>, job[p].ocr = "raised", FALSE).job.result
       ELSE j.result

\* C6 (as claimed): when the cache read or write raises, the page is still
\* recognized and yields what it yields with an empty, working cache.
C6_CacheDownDegrades ==
    \A p \in Pages :
        (job[p].st = "returned" /\ (job[p].read = "fault" \/ job[p].write = "fault")) =>
            /\ job[p].ocr # "none"
            /\ job[p].result = WithEmptyCache(p)

\* C7 (as claimed): a cached value that cannot be evaluated is a miss: the
\* page is recognized and its chunks returned.
C7_BadEntryIsMiss ==
    \A p \in Pages :
        (job[p].st = "returned" /\ job[p].read = "bad") =>
            /\ job[p].ocr # "none"
            /\ job[p].result = WithEmptyCache(p)

\* every chunk of result is in cs at least as often as in result
Contributes(cs, result) ==
    \A i \in 1..Len(result) : Count(cs, result[i]) >= Count(result, result[i])

InResults(c) ==
    SumSeq([i \in 1..Len(futures) |-> Count(job[futures[i]].result, c)])

AllResults == UNION {RangeOf(job[p].result) : p \in Pages}

\* C9: when the request is done, every chunk is in the returned list exactly
\* as often as in the results of the page jobs together: none dropped, none
\* duplicated, whatever the order of completion.
C9_AggregatesExactly ==
    pc = "done" =>
        /\ \A c \in RangeOf(chunks) \cup AllResults : Count(chunks, c) = InResults(c)
        /\ Len(chunks) = SumSeq([i \in 1..Len(futures) |-> Len(job[futures[i]].result)])

\* C9 witness: two pages, collected against the page order, one of them
\* holding the same chunk twice
C9_Witness ==
    /\ pc = "done"
    /\ Len(futures) = 2
    /\ \A p \in Pages : job[p].result # <<>>
    /\ chunks[1].page = 2
    /\ \E c \in RangeOf(chunks) : Count(chunks, c) = 2

RECURSIVE SequentialRun(_, _)
\* process_pdf with one worker: the futures run one after the other in
\* submission order on the store c, each result collected as it completes.
\* The calls that raised for a page in the run observed are the ones that
\* raise here.
SequentialRun(order, c) ==
    IF order = <<>> THEN <<>>
    ELSE LET p == Head(order)
             j == ProcessPageBegin(NewJob, PageOf(p), p, c,
                                   job[p].raster = "raised", job[p].read = "fault")
             out == IF j.st = "ocr"
                    THEN ProcessPageRecognize(j, PageOf(p), p, c,
                                              job[p].ocr = "raised", job[p].write = "fault")
                    ELSE [job |-> j, cache |-> c, put |-> <<>>]
         IN out.job.result \o SequentialRun(Tail(order), out.cache)

\* C10: when the request is done, the set of chunks returned is the set a
\* single worker returns for the same document, range and initial cache,
\* whatever the pool size and the interleaving of the page jobs.
C10_PoolSizeIndependent ==
    pc = "done" => RangeOf(chunks) = RangeOf(SequentialRun(futures, cache0))

\* C10 witness: with 8 workers, two jobs ran interleaved, both wrote the
\* cache, and the results were collected in another order than one worker
\* gives
C10_Witness ==
    /\ pc = "done"
    /\ max_workers(cpu_count) = 8
    /\ Len(futures) = 2
    /\ \A p \in Pages : job[p].write = "ok"
    /\ chunks # SequentialRun(futures, cache0)

\* ---------------------------------------------------------- C11 .. C13
\* an OCR chunk as both strategies are to emit it
WellFormedOcr(c) ==
    /\ Strip(c.text) # <<>>
    /\ \A i \in 1..4 : c.bbox[i] >= 0
    /\ c.confidence > MinConfidence

OcrChunksOf(cs) == {c \in RangeOf(cs) : "confidence" \in DOMAIN c}

\* C11: every OCR chunk emitted, by _process_ocr_batch for a page job or by
\* the perform_ocr task, has text that is not empty, four coordinates that
\* are not negative, and a confidence above 0.5.
C11_EmittedOcrChunksWellFormed ==
    /\ \A p \in Pages :
          job[p].ocr = "ok" => \A c \in OcrChunksOf(job[p].result) : WellFormedOcr(c)
    /\ \A c \in OcrChunksOf(task.result) : WellFormedOcr(c)

\* C12: a task whose body failed is not final before it was retried.
C12_FailureIsRetried ==
    (task.state \in {"SUCCESS", "FAILURE"} /\ task.failed) => task.retries > 0

\* C13: the task never ends in an error and is never sent back for a retry:
\* once run it has succeeded with a chunk sequence, the empty one when its
\* body failed.
C13_TaskNeverRaises ==
    /\ task.state \in {"NONE", "PENDING", "SUCCESS"}
    /\ task.state = "SUCCESS" =>
          /\ \A c \in RangeOf(task.result) : c.page = task.page_num
          /\ task.failed => task.result = <<>>
          /\ task.page_image \in {EmptyBytes, JunkBytes} => task.result = <<>>

\* C13 witness: the engine failed on an image it can read, and the task
\* succeeded with no chunk; on another run it would have returned chunks
C13_Witness ==
    /\ task.state = "SUCCESS"
    /\ task.failed
    /\ task.result = <<>>
    /\ task.page_image \notin {EmptyBytes, JunkBytes}
    /\ perform_ocr(task.page_image, task.page_num, task.pdf_width,
                   task.pdf_height, FALSE).value # <<>>

\* ------------------------------------------------------------------ C14
\* C14: a request whose bytes cannot be opened as a PDF fails with the status
\* of an invalid format (400) as the caller sees it, not with the one of a
\* processing error (500).
C14_UnreadableIsInvalidFormat ==
    (pc = "failed" /\ args[3] = "junk") =>
        (error.status = 400 /\ error.status # 500)

\* ------------------------------------------------------------------ C15
\* the orders in which the futures of the call can complete
Orders(fs) ==
    {o \in [1..Len(fs) -> RangeOf(fs)] : \A i, j \in 1..Len(fs) : o[i] = o[j] => i = j}

\* the results of the page jobs, one after the other in the order o
ResultsIn(o) == Concat([i \in 1..Len(o) |-> job[o[i]].result])

\* C15 (as claimed): the chunks returned are in nondecreasing page order,
\* whatever the order in which the page jobs completed.
C15_PageOrdered ==
    pc = "done" =>
        \A i, j \in 1..Len(chunks) : i < j => chunks[i].page <= chunks[j].page

\* C15 (amended): the chunks returned are the results of the page jobs put
\* one after the other, whole and each in its own order, the pages in the
\* order their jobs were collected (not necessarily the page order).
C15_MergesWholeResults ==
    pc = "done" => \E o \in Orders(futures) : chunks = ResultsIn(o)

\* C15 witness: the second page, with two different chunks, was collected
\* before the first, and both contributed
C15_Witness ==
    /\ pc = "done"
    /\ Len(futures) = 2
    /\ \A p \in Pages : job[p].result # <<>>
    /\ Len(job[1].result) = 2 /\ job[1].result[1] # job[1].result[2]
    /\ chunks = job[1].result \o job[0].result

\* ---------------------------------------------------------- C16 .. C20
\* the cache key of the page of index p
KeyOf(p) == _get_cache_key(PageOf(p).png, p)

\* what the engine gave the job of page p (nothing when it raised)
Recognized(p) ==
    IF job[p].ocr = "raised" THEN <<>>
    ELSE _process_ocr_batch(PageOf(p).png, p + 1, PageOf(p).width, PageOf(p).height, FALSE)

\* C16: a page job calls the engine, and writes the cache, only after a
\* miss: the cache read gave nothing for the key of its page. A job whose
\* read gave a stored chunk sequence returns that sequence, calls no engine
\* and writes nothing: the entry is as it was when the request began.
C16_RecognitionOnlyOnMiss ==
    \A p \in Pages :
        /\ (job[p].ocr # "none" \/ job[p].write # "none") =>
              /\ job[p].read = "miss"
              /\ KeyOf(p) \notin DOMAIN cache0 \/ cache0[KeyOf(p)] = EmptyStr
        /\ ( /\ job[p].st = "returned"
             /\ job[p].raster = "ok"
             /\ job[p].read # "fault"
             /\ KeyOf(p) \in DOMAIN cache0
             /\ cache0[KeyOf(p)].kind = "repr" ) =>
              /\ job[p].read = "hit"
              /\ job[p].result = Eval(cache0[KeyOf(p)])
              /\ job[p].ocr = "none"
              /\ job[p].write = "none"
              /\ KeyOf(p) \in DOMAIN cache
              /\ cache[KeyOf(p)] = cache0[KeyOf(p)]

\* C16 witness: in one request a page was served from the cache without the
\* engine, and a page that missed was recognized and stored
C16_Witness ==
    \E p, q \in Pages :
        /\ job[p].st = "returned" /\ job[p].read = "hit"
        /\ job[p].result # <<>> /\ job[p].ocr = "none" /\ job[p].write = "none"
        /\ job[q].st = "returned" /\ job[q].read = "miss"
        /\ job[q].ocr = "ok" /\ job[q].write = "ok"

\* the spans of the text layer holding more than white space
NonBlank(page) ==
    SelectSeq(SpansOf(page), LAMBDA sp : \E i \in 1..Len(sp.text) : sp.text[i] # " ")

\* C17: a page on the native side is returned without the page being
\* rasterized, the cache read or written, or the engine called; its result
\* is one chunk for each span holding more than white space, in source
\* order, with the stripped text and the bbox of the span. A request whose
\* pages are all native leaves the cache as it found it.
C17_NativePageFrame ==
    /\ \A p \in Pages : job[p].strategy = "NATIVE" =>
          /\ job[p].st = "returned"
          /\ job[p].raster = "none" /\ job[p].read = "none"
          /\ job[p].ocr = "none" /\ job[p].write = "none"
          /\ LET kept == NonBlank(PageOf(p))
             IN /\ Len(job[p].result) = Len(kept)
                /\ \A i \in 1..Len(kept) :
                      job[p].result[i] =
                          [text |-> Strip(kept[i].text), bbox |-> kept[i].bbox, page |-> p + 1]
    /\ (pc \in {"collect", "done"} /\ \A p \in Pages : job[p].strategy \in {"", "NATIVE"}) =>
          cache = cache0

\* C17 witness: a native page with a span of white space contributed its two
\* other spans to a finished request, while the cache held an entry under
\* the key of that very page
C17_Witness ==
    /\ pc = "done"
    /\ \E p \in Pages :
          /\ job[p].strategy = "NATIVE"
          /\ Len(SpansOf(PageOf(p))) = 3
          /\ Len(job[p].result) = 2
          /\ KeyOf(p) \in DOMAIN cache
          /\ \A i \in 1..2 : Count(chunks, job[p].result[i]) = 1

\* C18: a request that dispatched page jobs returns in the end, under fair
\* scheduling; and whenever it has returned, every job it dispatched has
\* returned and been collected, with no error raised; whenever it has failed
\* it carries one error and no job is left.
C18_RequestTerminates ==
    /\ [](pc = "done" =>
            /\ \A p \in Pages : job[p].st = "returned" /\ job[p].collected
            /\ Pages = RangeOf(futures)
            /\ error = NoError)
    /\ [](pc = "failed" => error # NoError /\ Pages = {})
    /\ (pc = "collect") ~> (pc = "done")

\* C18 witness: a request over two pages has returned after both its jobs
\* ran at the same time, one of them through the engine
C18_Witness ==
    /\ pc = "done"
    /\ Len(futures) = 2
    /\ max_workers(cpu_count) > 1
    /\ \E p \in Pages : job[p].ocr = "ok"
    /\ \A p \in Pages : job[p].collected

\* C19: a page on the OCR side whose cache read or recognition gave chunks
\* contributes exactly those chunks; one whose recognition gave nothing
\* contributes its native chunks.
C19_OneSourcePerOcrPage ==
    \A p \in Pages :
        (job[p].st = "returned" /\ job[p].read \in {"hit", "miss"}) =>
            LET yielded == IF job[p].read = "hit" THEN Eval(cache0[KeyOf(p)])
                           ELSE Recognized(p)
            IN job[p].result = IF yielded # <<>> THEN yielded
                               ELSE page_chunks(PageOf(p), p)

\* C20: every chunk sequence in the cache has at least one chunk, and a job
\* whose recognition gave nothing has written nothing: the read of its key
\* still misses.
C20_NoEmptyEntry ==
    /\ \A k \in DOMAIN cache : cache[k].kind = "repr" => Eval(cache[k]) # <<>>
    /\ \A p \in Pages :
          (job[p].st = "returned" /\ job[p].ocr # "none" /\ Recognized(p) = <<>>) =>
              /\ job[p].write = "none"
              /\ ~Truthy(RedisGet(cache, KeyOf(p)))

\* C20 witness: the engine read nothing on one page and chunks on another;
\* only the second is in the cache
C20_Witness ==
    \E p, q \in Pages :
        /\ job[p].st = "returned" /\ job[p].ocr = "ok" /\ Recognized(p) = <<>>
        /\ KeyOf(p) \notin DOMAIN cache
        /\ job[q].write = "ok"
        /\ KeyOf(q) \in DOMAIN cache
        /\ KeyOf(q) \notin DOMAIN cache0

\* ------------------------------------------------------------------ C21
\* C21: every chunk a request returns carries a page number between the
\* start and the end of the request, both clamped into [1, totalPages];
\* this includes the chunks read from the cache.
C21_PagesWithinClampedRange ==
    (pc = "done" /\ args[3] = "pdf") =>
        LET s == ClampInto(args[1], Len(doc))
            e == IF args[2].isNone THEN Len(doc) ELSE ClampInto(args[2].val, Len(doc))
        IN \A i \in 1..Len(chunks) : s <= chunks[i].page /\ chunks[i].page <= e
====
